---- MODULE Spec2Model ----
(***************************************************************************)
(* State-machine model of vrchatapi_extensions: the encrypted cookie vault *)
(* (utils/crypto.py, CookieVault) and the login orchestration              *)
(* (api/authentication/login.py, api/authentication/authentication.py).    *)
(***************************************************************************)
EXTENDS Integers, Sequences, FiniteSets, TLC

(***************************************************************************)
(* Bounds of the model.                                                    *)
(***************************************************************************)
\* number of Authentication.login() calls made in one run
MaxLogins == 2

\* number of verify_auth_token() calls made in one run
MaxVerifies == 2

(***************************************************************************)
(* Program constants.                                                      *)
(***************************************************************************)
LOGIN_RETRY_LIMIT == 3

(***************************************************************************)
(* Values.  PyNone stands for Python's None wherever a str is optional;    *)
(* it is not a member of Strs, so IsStr tells the two apart.               *)
(***************************************************************************)
PyNone == "<None>"

Strs == {"", "abc123", "xyz", "123", "user", "pw", "typed-user", "typed-pw"}

IsStr(v) == v \in Strs

Names == {"auth", "twoFactorAuth"}

\* An optional dict: some = FALSE is Python None, otherwise d is the mapping.
NoBag == [some |-> FALSE, d |-> <<>>]

Some(d) == [some |-> TRUE, d |-> d]

Dict2(a, f) == [n \in Names |-> IF n = "auth" THEN a ELSE f]

Dict1(n, v) == [x \in {n} |-> v]

\* The dicts a direct caller hands to CookieVault.save().
Bags ==
  { Some(<<>>),
    Some(Dict1("auth", "abc123")),
    Some(Dict1("twoFactorAuth", "123")),
    Some(Dict2("xyz", "123")),
    Some(Dict2("abc123", PyNone)) }

(***************************************************************************)
(* json.dumps / json.loads on the values save() and _decrypt() handle:     *)
(* a dict becomes a JSON object, None becomes the JSON text null.          *)
(***************************************************************************)
JsonDumps(cookies) ==
  IF cookies.some THEN [t |-> "object", m |-> cookies.d]
                  ELSE [t |-> "null", m |-> <<>>]

JsonLoads(plain) ==
  IF plain.t = "object" THEN Some(plain.m) ELSE NoBag

(***************************************************************************)
(* Bytes: the content of the vault file and of CookieVault._ciphertext.    *)
(* kind "none" is "no file" / _ciphertext is None; "empty" is b"";         *)
(* "garbage" is non-empty bytes that are no Fernet token; "token" is a     *)
(* Fernet token of plaintext plain under key key.                          *)
(***************************************************************************)
NoKey == 0

NoBytes == [kind |-> "none", key |-> NoKey, plain |-> JsonDumps(NoBag)]

EmptyBytes == [kind |-> "empty", key |-> NoKey, plain |-> JsonDumps(NoBag)]

Garbage == [kind |-> "garbage", key |-> NoKey, plain |-> JsonDumps(NoBag)]

FernetEncrypt(key, plain) == [kind |-> "token", key |-> key, plain |-> plain]

\* Fernet(key).decrypt(bytes): the plaintext, or InvalidToken.
FernetDecrypt(key, bytes) ==
  IF bytes.kind = "token" /\ bytes.key = key
    THEN [err |-> "none", plain |-> bytes.plain]
    ELSE [err |-> "InvalidToken", plain |-> JsonDumps(NoBag)]

(***************************************************************************)
(* Response headers.  sc is the Set-Cookie value as a list of name/value   *)
(* pairs in the order they appear in the string ("auth=abc123; Path=/" is  *)
(* <<<<"auth","abc123">>, <<"Path","/">>>>); has = FALSE when the mapping  *)
(* has no Set-Cookie entry; none = TRUE when the headers object is None.   *)
(* isList = TRUE when the Set-Cookie value is a list of strings, items     *)
(* then holds one list of pairs per string.  hasLower and lower are the    *)
(* entry under the key "set-cookie".                                       *)
(***************************************************************************)
Hdr(none, has, sc) ==
  [none |-> none, has |-> has, sc |-> sc, isList |-> FALSE, items |-> <<>>,
   hasLower |-> FALSE, lower |-> <<>>]

\* {"Set-Cookie": [s1, s2, ...]}
HdrList(items) ==
  [Hdr(FALSE, TRUE, <<>>) EXCEPT !.isList = TRUE, !.items = items]

\* the mapping h with the entry "set-cookie": lower added
WithLower(h, lower) == [h EXCEPT !.hasLower = TRUE, !.lower = lower]

HNone == Hdr(TRUE, FALSE, <<>>)

HNoCookie == Hdr(FALSE, FALSE, <<>>)

HPathOnly == Hdr(FALSE, TRUE, << <<"Path", "/">> >>)

HAuth == Hdr(FALSE, TRUE, << <<"auth", "abc123">>, <<"Path", "/">> >>)

HAuth2 == Hdr(FALSE, TRUE, << <<"auth", "xyz">>, <<"Path", "/">>,
                              <<"twoFactorAuth", "123">>, <<"Path", "/">> >>)

HEmptyAuth == Hdr(FALSE, TRUE, << <<"auth", "">>, <<"Path", "/">> >>)

HEmptyString == Hdr(FALSE, TRUE, <<>>)

HLowerAuth == WithLower(HNoCookie, << <<"auth", "abc123">>, <<"Path", "/">> >>)

HEmptyUpperLowerAuth == WithLower(HEmptyString, << <<"auth", "xyz">> >>)

HPathUpperLowerAuth == WithLower(HPathOnly, << <<"auth", "xyz">> >>)

\* {"Set-Cookie": ["auth=xyz; Path=/", "twoFactorAuth=123; Path=/"]}
HList ==
  HdrList(<< << <<"auth", "xyz">>, <<"Path", "/">> >>,
             << <<"twoFactorAuth", "123">>, <<"Path", "/">> >> >>)

\* {"Set-Cookie": ["Path=/"]}
HListPathOnly == HdrList(<< << <<"Path", "/">> >> >>)

\* {"Set-Cookie": ["auth=abc123; Path=/"]}
HListAuth == HdrList(<< << <<"auth", "abc123">>, <<"Path", "/">> >> >>)

\* {"Set-Cookie": [], "set-cookie": "auth=abc123; Path=/"}
HEmptyListLowerAuth ==
  WithLower(HdrList(<<>>), << <<"auth", "abc123">>, <<"Path", "/">> >>)

\* The headers a direct caller hands to CookieVault.extract().
ExtractHeaders ==
  { HNone, HNoCookie, HPathOnly, HAuth, HAuth2, HEmptyAuth, HEmptyString,
    HLowerAuth, HEmptyUpperLowerAuth, HPathUpperLowerAuth, HList,
    HListPathOnly, HListAuth, HEmptyListLowerAuth }

\* Morsel attributes: http.cookies reads these as attributes of the
\* preceding cookie, never as cookies of their own.
Reserved == {"Path", "Domain", "Max-Age", "Expires"}

\* SimpleCookie.load(str): the jar; a later cookie of one name replaces
\* an earlier one.
RECURSIVE Jar(_)
Jar(sc) ==
  IF sc = <<>> THEN <<>>
  ELSE LET rest == Jar(Tail(sc))
           c    == Head(sc)
       IN IF c[1] \in Reserved \/ c[1] \in DOMAIN rest
            THEN rest
            ELSE [n \in DOMAIN rest \cup {c[1]} |->
                    IF n = c[1] THEN c[2] ELSE rest[n]]

\* header.get("Set-Cookie") is truthy: a non-empty string or list
UpperTruthy(header) ==
  /\ header.has
  /\ IF header.isList THEN header.items # <<>> ELSE header.sc # <<>>

\* the string extract() parses: header.get("Set-Cookie") or
\* header.get("set-cookie"); <<>> is the empty or missing value
SetCookie(header) ==
  IF UpperTruthy(header) THEN header.sc
  ELSE IF header.hasLower THEN header.lower ELSE <<>>

\* what CookieVault.extract(header) raises: SimpleCookie(set_cookie) calls
\* set_cookie.items() on every value that is not a str
ExtractErr(header) ==
  IF ~header.none /\ UpperTruthy(header) /\ header.isList
    THEN "AttributeError" ELSE "none"

\* CookieVault.extract(header): what it returns when it does not raise
Extract(header) ==
  IF header.none THEN NoBag
  ELSE IF ExtractErr(header) # "none" \/ SetCookie(header) = <<>> THEN NoBag
  ELSE LET jar   == Jar(SetCookie(header))
           auth  == IF "auth" \in DOMAIN jar THEN jar["auth"] ELSE PyNone
           twofa == IF "twoFactorAuth" \in DOMAIN jar
                      THEN jar["twoFactorAuth"] ELSE PyNone
       IN IF auth = PyNone \/ auth = "" THEN NoBag
          ELSE Some(Dict2(auth, twofa))

(***************************************************************************)
(* CookieVault methods as functions of the state they read: c is the       *)
(* vault's _ciphertext, kr the SecretStore entry, nk the generator's next  *)
(* key.  Each returns what it raises or returns and the SecretStore it     *)
(* leaves behind.                                                          *)
(***************************************************************************)
\* CookieVault.is_active
IsActive(c) == c # NoBytes

\* _get_key that generates and stores a key on every call
GetKeyAlwaysMint(kr, nk) ==
  [key |-> nk, keyring |-> nk, nextKey |-> nk + 1]

\* CookieVault._get_key
GetKey(kr, nk) ==
  IF kr = NoKey
    THEN [key |-> nk, keyring |-> nk, nextKey |-> nk + 1]
    ELSE [key |-> kr, keyring |-> kr, nextKey |-> nk]

\* CookieVault._decrypt
Decrypt(c, kr, nk) ==
  IF c = NoBytes \/ c = EmptyBytes
    THEN [err |-> "RuntimeError", data |-> NoBag, keyring |-> kr, nextKey |-> nk]
    ELSE LET k == GetKey(kr, nk)
             r == FernetDecrypt(k.key, c)
         IN [err     |-> r.err,
             data    |-> IF r.err = "none" THEN JsonLoads(r.plain) ELSE NoBag,
             keyring |-> k.keyring,
             nextKey |-> k.nextKey]

\* CookieVault.get
Get(c, kr, nk, name) ==
  LET r == Decrypt(c, kr, nk)
  IN IF r.err # "none"
       THEN [err |-> r.err, val |-> PyNone, keyring |-> r.keyring, nextKey |-> r.nextKey]
     ELSE IF ~r.data.some
       THEN [err |-> "AttributeError", val |-> PyNone,
             keyring |-> r.keyring, nextKey |-> r.nextKey]
     ELSE LET value == IF name \in DOMAIN r.data.d THEN r.data.d[name] ELSE PyNone
          IN [err |-> "none", val |-> IF IsStr(value) THEN value ELSE PyNone,
              keyring |-> r.keyring, nextKey |-> r.nextKey]

\* CookieVault.set_configuration: the Cookie header it sets on the client
SetConfiguration(c, kr, nk) ==
  LET a == Get(c, kr, nk, "auth")
  IN IF a.err # "none"
       THEN [err |-> a.err, header |-> "", keyring |-> a.keyring, nextKey |-> a.nextKey]
     ELSE LET h1 == IF a.val # PyNone THEN "auth=" \o a.val ELSE ""
              t  == Get(c, a.keyring, a.nextKey, "twoFactorAuth")
          IN IF t.err # "none"
               THEN [err |-> t.err, header |-> "", keyring |-> t.keyring,
                     nextKey |-> t.nextKey]
               ELSE [err |-> "none",
                     header |-> IF t.val # PyNone
                                  THEN h1 \o "; twoFactorAuth=" \o t.val ELSE h1,
                     keyring |-> t.keyring, nextKey |-> t.nextKey]

\* save() that persists the auth entry only
SaveAuthOnly(kr, nk, cookies) ==
  LET k    == GetKey(kr, nk)
      kept == IF cookies.some
                THEN Some([n \in DOMAIN cookies.d \cap {"auth"} |-> cookies.d[n]])
                ELSE cookies
  IN [token   |-> FernetEncrypt(k.key, JsonDumps(kept)),
      keyring |-> k.keyring,
      nextKey |-> k.nextKey]

\* CookieVault.save: the token it writes and the SecretStore it leaves
Save(kr, nk, cookies) ==
  LET k == GetKey(kr, nk)
  IN [token   |-> FernetEncrypt(k.key, JsonDumps(cookies)),
      keyring |-> k.keyring,
      nextKey |-> k.nextKey]

\* load() that leaves b"" instead of None when there is no file
LoadEmptyWhenMissing(f) == IF f # NoBytes THEN f ELSE EmptyBytes

\* CookieVault.load: the _ciphertext it sets
Load(f) == IF f # NoBytes THEN f ELSE NoBytes

(***************************************************************************)
(* The identity provider (vrchatapi.AuthenticationApi) and its errors.     *)
(* A reason is the list of the words of the reason string, so that         *)
(* Python's "phrase in reason" is a test for a contiguous run of words.    *)
(***************************************************************************)
REmail == <<"Email", "2", "Factor", "Authentication", "required">>

RTotp == <<"2", "Factor", "Authentication", "required">>

RMaintenance == <<"Maintenance", "mode">>

RBadCode == <<"Invalid", "code">>

Reasons == {REmail, RTotp, RMaintenance}

\* the email phrase in lower case, which no reason of the provider holds
EmailPhraseLowercase == <<"email", "2", "factor", "authentication">>

EmailPhrase == <<"Email", "2", "Factor", "Authentication">>

TotpPhrase == <<"2", "Factor", "Authentication">>

\* phrase in reason
Contains(reason, phrase) ==
  \E i \in 1..Len(reason) :
    /\ i + Len(phrase) - 1 <= Len(reason)
    /\ SubSeq(reason, i, i + Len(phrase) - 1) = phrase

\* An exception: kind is its class, at the call that threw it; wraps holds
\* the attempt's exception when the exception is a tenacity RetryError.
Err(kind, reason, headers, at) ==
  [kind |-> kind, reason |-> reason, headers |-> headers, at |-> at,
   wraps |-> <<>>]

NoErr == Err("none", <<>>, HNone, "none")

\* What one identity fetch can answer: a user with response headers, an
\* UnauthorizedException with reason and headers, or another ApiException.
FetchResponses ==
  {[status |-> "ok", reason |-> <<>>, headers |-> h] :
      h \in {HNoCookie, HPathOnly, HAuth, HAuth2}}
  \cup {[status |-> "unauthorized", reason |-> r, headers |-> h] :
      r \in Reasons, h \in {HNone, HAuth}}
  \cup {[status |-> "error", reason |-> <<"Server", "error">>, headers |-> HNone]}

\* get_current_user() hands back the user only, so the success headers of a
\* cookie fetch reach nobody.
CookieFetchResponses ==
  {r \in FetchResponses : r.status = "ok" => r.headers = HNoCookie}

\* What a second-factor verification can answer.
VerifyResponses ==
  { [status |-> "ok", reason |-> <<>>, headers |-> HNone],
    [status |-> "unauthorized", reason |-> RBadCode, headers |-> HNone] }

ErrOf(resp, at) ==
  Err(IF resp.status = "unauthorized" THEN "Unauthorized" ELSE "ApiException",
      resp.reason, resp.headers, at)

(***************************************************************************)
(* State.                                                                  *)
(***************************************************************************)
\* v1, v2: vault instances of a direct caller; lv: the instance login() builds
DirectVaults == {"v1", "v2"}

\* dv: the instance the default argument of verify_auth_token holds, built
\* once when the module is imported; fv: an instance the caller builds for
\* the call
VerifyVaults == {"dv", "fv"}

Vaults == DirectVaults \cup {"lv"} \cup VerifyVaults

VARIABLES
  file,        \* bytes at store_path; NoBytes when the file does not exist
  keyring,     \* SecretStore entry (service_name, account_name); NoKey = None
  nextKey,     \* the next key Fernet.generate_key() returns
  ct,          \* ct[v]: CookieVault._ciphertext of vault instance v
  src,         \* src[v]: the call that last set ct[v]: "init", "load", "save"
  last,        \* the last direct vault operation and what it returned
  savedBag,    \* the dict of the last save() whose token is still the file
  prevBag,     \* the dict of the save() before that
  pc,          \* where the Authentication.login() call stands
  args,        \* username and password of the call
  mu, mp,      \* username and password parameters of __manual_login
  e,           \* the UnauthorizedException __manual_login caught
  thrown,      \* the exception most recently thrown by a callee
  attemptErr,  \* the exception that left login()
  raisedErr,   \* the exception Authentication.login() raised to its caller
  result,      \* what the call returned and on which path
  succHdr,     \* response headers of the manual identity fetch that succeeded
  cookieHeader,\* the Cookie header set_configuration put on the client
  cnt,         \* per call: attempts, fetches, prompts, verifications
  saves,       \* per call: the arguments of the Vault.save calls, in order
  atCall,      \* file and SecretStore entry when the call started
  nLogins,     \* Authentication.login() calls made so far
  sv,          \* sv[v]: where a save() of caller v that runs step by step stands
  vf,          \* the verify_auth_token() call: where it stands, what it did
  cookieFile,  \* plain-cookie variant: the content of the file at constant.COOKIE
  cookieOp     \* plain-cookie variant: the last Cookie call and what it returned

vaultVars == <<file, keyring, nextKey, ct, src>>

histVars == <<last, savedBag, prevBag>>

loginVars == <<pc, args, mu, mp, e, thrown, attemptErr, raisedErr, result,
               succHdr, cookieHeader, cnt, saves, atCall, nLogins>>

vars == <<file, keyring, nextKey, ct, src, last, savedBag, prevBag,
          pc, args, mu, mp, e, thrown, attemptErr, raisedErr, result,
          succHdr, cookieHeader, cnt, saves, atCall, nLogins, sv,
          vf, cookieFile, cookieOp>>

NoSaved == [valid |-> FALSE, bag |-> NoBag]

\* A direct vault call: existed = the file existed when it ran, before =
\* is_active before it ran.
Op(op, v, name, arg, err, val, existed, before) ==
  [op |-> op, v |-> v, name |-> name, arg |-> arg, err |-> err, val |-> val,
   existed |-> existed, before |-> before, hdr |-> HNone, kr |-> NoKey]

\* the direct call with the SecretStore entry it found
OpAt(op, v, name, arg, err, val, existed, before, kr) ==
  [Op(op, v, name, arg, err, val, existed, before) EXCEPT !.kr = kr]

NoOp == Op("none", "v1", "auth", NoBag, "none", PyNone, FALSE, FALSE)

NoCnt ==
  [attempts |-> 0, cookieFetches |-> 0, manualFetches |-> 0,
   credPrompts |-> 0, codePrompts |-> 0, emailVerifies |-> 0,
   totpVerifies |-> 0, rejected |-> 0, codeRejected |-> 0]

NoResult == [user |-> "none", via |-> "none"]

\* Files left by earlier runs: none, a truncated one, a damaged one, a token
\* under the key 1 and a token under another key.
InitFiles ==
  { NoBytes, EmptyBytes, Garbage,
    FernetEncrypt(1, JsonDumps(Some(Dict2("abc123", PyNone)))),
    FernetEncrypt(2, JsonDumps(Some(Dict2("abc123", PyNone)))) }

VaultInit ==
  /\ file \in InitFiles
  /\ keyring \in {NoKey, 1}
  /\ nextKey = 3
  /\ ct = [v \in Vaults |-> NoBytes]
  /\ src = [v \in Vaults |-> "init"]
  /\ last = NoOp
  /\ savedBag = NoSaved
  /\ prevBag = NoSaved

LoginInit ==
  /\ pc = "idle"
  /\ args = [username |-> PyNone, password |-> PyNone]
  /\ mu = PyNone
  /\ mp = PyNone
  /\ e = NoErr
  /\ thrown = NoErr
  /\ attemptErr = NoErr
  /\ raisedErr = NoErr
  /\ result = NoResult
  /\ succHdr = HNone
  /\ cookieHeader = PyNone
  /\ cnt = NoCnt
  /\ saves = <<>>
  /\ atCall = [file |-> NoBytes, keyring |-> NoKey]
  /\ nLogins = 0

\* a caller that has not called save(): inj is the step the platform failed,
\* seq the position of its file write among the file writes
NoSave ==
  [pc |-> "idle", bag |-> NoBag, key |-> NoKey, sawNone |-> FALSE,
   token |-> NoBytes, err |-> "none", inj |-> "none", wrote |-> FALSE,
   seq |-> 0]

SaveInit == sv = [v \in DirectVaults |-> NoSave]

\* no verify_auth_token() call yet; logins is the number of login() calls
\* made before the verify_auth_token() call
NoVerify ==
  [pc |-> "idle", vault |-> "dv", n |-> 0, activeAtCall |-> FALSE,
   loads |-> 0, active |-> FALSE, configured |-> 0, hdr |-> PyNone,
   net |-> 0, answered |-> FALSE, ok |-> FALSE, ret |-> FALSE,
   err |-> "none", logins |-> 0]

VerifyInit == vf = NoVerify

(***************************************************************************)
(* The plain-cookie variant (data/cookie_data.py): class Cookie keeps the  *)
(* auth value as JSON text in the file at constant.COOKIE.                 *)
(***************************************************************************)
\* Optional[Cookie]: None, or Cookie(auth=auth)
NoCookie == [some |-> FALSE, auth |-> PyNone]

CookieOf(auth) == [some |-> TRUE, auth |-> auth]

\* Contents of the file: no file; text that is no JSON document (a
\* zero-length file, a cut-off document); the JSON documents null and [];
\* a JSON object, m its members.
PlainMissing == [kind |-> "missing", m |-> <<>>]

PlainEmpty == [kind |-> "empty", m |-> <<>>]

PlainText == [kind |-> "text", m |-> <<>>]

PlainNull == [kind |-> "null", m |-> <<>>]

PlainArray == [kind |-> "array", m |-> <<>>]

PlainObject(m) == [kind |-> "object", m |-> m]

\* the auth values of the cookies a caller saves
PlainAuths == {"abc123", "xyz"}

\* what an earlier run or another program can have left at the path
PlainContents ==
  { PlainEmpty, PlainText, PlainNull, PlainArray, PlainObject(<<>>),
    PlainObject(Dict1("twoFactorAuth", "123")) }
  \cup {PlainObject(Dict1("auth", a)) : a \in PlainAuths}

\* json.load(f) followed by data["auth"]: the exception raised, "none" if none
PlainLoadErr(content) ==
  IF content.kind \in {"empty", "text"} THEN "JSONDecodeError"
  ELSE IF content.kind \in {"null", "array"} THEN "TypeError"
  ELSE IF content.kind = "object" /\ "auth" \notin DOMAIN content.m
    THEN "KeyError"
  ELSE "none"

\* Cookie.load(path): what it returns when it returns
PlainLoad(content) ==
  IF content.kind = "object" /\ "auth" \in DOMAIN content.m
    THEN CookieOf(content.m["auth"])
    ELSE NoCookie

\* Cookie.save(): json.dump(self.json, f)
PlainSave(cookie) == PlainObject(Dict1("auth", cookie.auth))

\* Cookie.extract(header)
PlainExtract(header) ==
  IF Extract(header).some THEN CookieOf(Extract(header).d["auth"])
                          ELSE NoCookie

PlainOp(op, err, ret, hdr, found) ==
  [op |-> op, err |-> err, ret |-> ret, hdr |-> hdr, found |-> found]

PlainInit ==
  /\ cookieFile = PlainMissing
  /\ cookieOp = PlainOp("none", "none", NoCookie, HNone, PlainMissing)

Init == VaultInit /\ LoginInit /\ SaveInit /\ VerifyInit /\ PlainInit

(***************************************************************************)
(* Direct calls of the vault's public methods.                             *)
(***************************************************************************)
\* load() that reads the file only while the vault is inactive
VaultLoadOnce(v) ==
  /\ ct' = [ct EXCEPT ![v] = IF IsActive(ct[v]) THEN ct[v] ELSE Load(file)]
  /\ src' = [src EXCEPT ![v] = "load"]
  /\ last' = OpAt("load", v, "auth", NoBag, "none", PyNone, file # NoBytes,
                  IsActive(ct[v]), keyring)
  /\ UNCHANGED <<file, keyring, nextKey, savedBag, prevBag>>
  /\ UNCHANGED loginVars
  /\ UNCHANGED <<sv, vf, cookieFile, cookieOp>>

VaultLoad(v) ==
  /\ ct' = [ct EXCEPT ![v] = Load(file)]
  /\ src' = [src EXCEPT ![v] = "load"]
  /\ last' = OpAt("load", v, "auth", NoBag, "none", PyNone, file # NoBytes,
                  IsActive(ct[v]), keyring)
  /\ UNCHANGED <<file, keyring, nextKey, savedBag, prevBag>>
  /\ UNCHANGED loginVars
  /\ UNCHANGED <<sv, vf, cookieFile, cookieOp>>

VaultSave(v, cookies) ==
  LET s == Save(keyring, nextKey, cookies)
  IN /\ file' = s.token
     /\ ct' = [ct EXCEPT ![v] = s.token]
     /\ src' = [src EXCEPT ![v] = "save"]
     /\ keyring' = s.keyring
     /\ nextKey' = s.nextKey
     /\ last' = OpAt("save", v, "auth", cookies, "none", PyNone,
                     file # NoBytes, IsActive(ct[v]), keyring)
     /\ savedBag' = [valid |-> TRUE, bag |-> cookies]
     /\ prevBag' = savedBag
     /\ UNCHANGED loginVars
     /\ UNCHANGED <<sv, vf, cookieFile, cookieOp>>

VaultGet(v, name) ==
  LET r == Get(ct[v], keyring, nextKey, name)
  IN /\ keyring' = r.keyring
     /\ nextKey' = r.nextKey
     /\ last' = OpAt("get", v, name, NoBag, r.err, r.val, file # NoBytes,
                     IsActive(ct[v]), keyring)
     /\ UNCHANGED <<file, ct, src, savedBag, prevBag>>
     /\ UNCHANGED loginVars
     /\ UNCHANGED <<sv, vf, cookieFile, cookieOp>>

\* vault.set_configuration(client): val is the Cookie header left on client
VaultSetConfiguration(v) ==
  LET r == SetConfiguration(ct[v], keyring, nextKey)
  IN /\ keyring' = r.keyring
     /\ nextKey' = r.nextKey
     /\ last' = OpAt("set_configuration", v, "auth", NoBag, r.err,
                     IF r.err = "none" THEN r.header ELSE PyNone,
                     file # NoBytes, IsActive(ct[v]), keyring)
     /\ UNCHANGED <<file, ct, src, savedBag, prevBag>>
     /\ UNCHANGED loginVars
     /\ UNCHANGED <<sv, vf, cookieFile, cookieOp>>

\* CookieVault.extract(header): arg is the dict it returned
VaultExtract(header) ==
  /\ last' = [OpAt("extract", "v1", "auth", Extract(header),
                    ExtractErr(header), PyNone, file # NoBytes, FALSE, keyring)
                EXCEPT !.hdr = header]
  /\ UNCHANGED <<savedBag, prevBag>>
  /\ UNCHANGED vaultVars
  /\ UNCHANGED loginVars
  /\ UNCHANGED <<sv, vf, cookieFile, cookieOp>>

\* The environment removes the vault file (an operator action, not the core's).
EnvRemoveFile ==
  /\ file # NoBytes
  /\ file' = NoBytes
  /\ last' = Op("remove", "v1", "auth", NoBag, "none", PyNone, TRUE, FALSE)
  /\ savedBag' = NoSaved
  /\ prevBag' = NoSaved
  /\ UNCHANGED <<keyring, nextKey, ct, src>>
  /\ UNCHANGED loginVars
  /\ UNCHANGED <<sv, vf, cookieFile, cookieOp>>

(***************************************************************************)
(* Authentication.login(username, password, agent), one step per call it   *)
(* makes on the vault, the prompt or the provider.                         *)
(***************************************************************************)
\* a save that keeps the token in memory and leaves the file alone
LoginSaveMemoryOnly(cookies) ==
  LET s == Save(keyring, nextKey, cookies)
  IN /\ file' = file
     /\ ct' = [ct EXCEPT !["lv"] = s.token]
     /\ src' = [src EXCEPT !["lv"] = "save"]
     /\ keyring' = s.keyring
     /\ nextKey' = s.nextKey
     /\ saves' = Append(saves, cookies)
     /\ savedBag' = savedBag
     /\ prevBag' = prevBag

\* vault.save(cookies) as login() calls it on its own vault instance
LoginSave(cookies) ==
  LET s == Save(keyring, nextKey, cookies)
  IN /\ file' = s.token
     /\ ct' = [ct EXCEPT !["lv"] = s.token]
     /\ src' = [src EXCEPT !["lv"] = "save"]
     /\ keyring' = s.keyring
     /\ nextKey' = s.nextKey
     /\ saves' = Append(saves, cookies)
     /\ savedBag' = [valid |-> TRUE, bag |-> cookies]
     /\ prevBag' = savedBag

\* an exception leaves login()
Raise(err) ==
  /\ thrown' = err
  /\ attemptErr' = err
  /\ pc' = "login_raised"

\* Authentication.login: the try block calls login(), which builds its vault
CallLogin(username, password) ==
  /\ pc \in {"idle", "returned", "raised"}
  /\ nLogins < MaxLogins
  /\ nLogins' = nLogins + 1
  /\ args' = [username |-> username, password |-> password]
  /\ pc' = "load"
  /\ ct' = [ct EXCEPT !["lv"] = NoBytes]
  /\ src' = [src EXCEPT !["lv"] = "init"]
  /\ atCall' = [file |-> file, keyring |-> keyring]
  /\ mu' = PyNone
  /\ mp' = PyNone
  /\ e' = NoErr
  /\ thrown' = NoErr
  /\ attemptErr' = NoErr
  /\ raisedErr' = NoErr
  /\ result' = NoResult
  /\ succHdr' = HNone
  /\ cookieHeader' = PyNone
  /\ cnt' = NoCnt
  /\ saves' = <<>>
  /\ UNCHANGED <<file, keyring, nextKey>>
  /\ UNCHANGED histVars
  /\ UNCHANGED <<sv, vf, cookieFile, cookieOp>>

\* login(): vault.load() and the choice of the path
LoginLoad ==
  /\ pc = "load"
  /\ ct' = [ct EXCEPT !["lv"] = Load(file)]
  /\ src' = [src EXCEPT !["lv"] = "load"]
  /\ cnt' = [cnt EXCEPT !.attempts = @ + 1]
  /\ IF IsActive(Load(file))
       THEN /\ pc' = "cookie_config"
            /\ UNCHANGED <<mu, mp>>
       ELSE /\ pc' = "manual_prompt"
            /\ mu' = args.username
            /\ mp' = args.password
  /\ UNCHANGED <<file, keyring, nextKey, args, e, thrown, attemptErr,
                 raisedErr, result, succHdr, cookieHeader, saves, atCall,
                 nLogins>>
  /\ UNCHANGED histVars
  /\ UNCHANGED <<sv, vf, cookieFile, cookieOp>>

\* __cookie_login: vault.set_configuration(client)
CookieConfigure ==
  /\ pc = "cookie_config"
  /\ LET r == SetConfiguration(ct["lv"], keyring, nextKey)
     IN /\ keyring' = r.keyring
        /\ nextKey' = r.nextKey
        /\ IF r.err # "none"
             THEN /\ Raise(Err(r.err, <<>>, HNone, "set_configuration"))
                  /\ UNCHANGED cookieHeader
             ELSE /\ pc' = "cookie_fetch"
                  /\ cookieHeader' = r.header
                  /\ UNCHANGED <<thrown, attemptErr>>
  /\ UNCHANGED <<file, ct, src, args, mu, mp, e, raisedErr, result, succHdr,
                 cnt, saves, atCall, nLogins>>
  /\ UNCHANGED histVars
  /\ UNCHANGED <<sv, vf, cookieFile, cookieOp>>

\* __cookie_login that saves the vault's dict again when the cookie is accepted
CookieFetchResave(resp) ==
  /\ pc = "cookie_fetch"
  /\ cnt' = [cnt EXCEPT !.cookieFetches = @ + 1,
                        !.rejected = IF resp.status = "unauthorized"
                                       THEN @ + 1 ELSE @]
  /\ CASE resp.status = "ok" ->
            /\ result' = [user |-> "user", via |-> "cookie"]
            /\ pc' = "login_returned"
            /\ LoginSave(Decrypt(ct["lv"], keyring, nextKey).data)
            /\ UNCHANGED <<mu, mp, thrown, attemptErr>>
       [] resp.status = "unauthorized" ->
            /\ thrown' = ErrOf(resp, "cookie_fetch")
            /\ mu' = PyNone
            /\ mp' = PyNone
            /\ pc' = "manual_prompt"
            /\ UNCHANGED <<result, attemptErr, file, keyring, nextKey, ct, src,
                           saves, savedBag, prevBag>>
       [] OTHER ->
            /\ Raise(ErrOf(resp, "cookie_fetch"))
            /\ UNCHANGED <<mu, mp, result, file, keyring, nextKey, ct, src,
                           saves, savedBag, prevBag>>
  /\ UNCHANGED <<args, e, raisedErr, succHdr, cookieHeader, atCall, nLogins,
                 last,
                 sv, vf, cookieFile, cookieOp>>

\* __cookie_login: auth.get_current_user() and the fallback to __manual_login
CookieFetch(resp) ==
  /\ pc = "cookie_fetch"
  /\ cnt' = [cnt EXCEPT !.cookieFetches = @ + 1,
                        !.rejected = IF resp.status = "unauthorized"
                                       THEN @ + 1 ELSE @]
  /\ CASE resp.status = "ok" ->
            /\ result' = [user |-> "user", via |-> "cookie"]
            /\ pc' = "login_returned"
            /\ UNCHANGED <<mu, mp, thrown, attemptErr>>
       [] resp.status = "unauthorized" ->
            /\ thrown' = ErrOf(resp, "cookie_fetch")
            /\ mu' = PyNone
            /\ mp' = PyNone
            /\ pc' = "manual_prompt"
            /\ UNCHANGED <<result, attemptErr>>
       [] OTHER ->
            /\ Raise(ErrOf(resp, "cookie_fetch"))
            /\ UNCHANGED <<mu, mp, result>>
  /\ UNCHANGED <<file, keyring, nextKey, ct, src, args, e, raisedErr, succHdr,
                 cookieHeader, saves, atCall, nLogins>>
  /\ UNCHANGED histVars
  /\ UNCHANGED <<sv, vf, cookieFile, cookieOp>>

\* __manual_login that asks for the username only
ManualPromptUsernameOnly ==
  /\ pc = "manual_prompt"
  /\ cnt' = [cnt EXCEPT !.credPrompts = @ + (IF mu = PyNone THEN 1 ELSE 0)]
  /\ mu' = IF mu = PyNone THEN "typed-user" ELSE mu
  /\ mp' = mp
  /\ pc' = "manual_fetch"
  /\ UNCHANGED <<args, e, thrown, attemptErr, raisedErr, result, succHdr,
                 cookieHeader, saves, atCall, nLogins>>
  /\ UNCHANGED vaultVars
  /\ UNCHANGED histVars
  /\ UNCHANGED <<sv, vf, cookieFile, cookieOp>>

\* __manual_login: input() / getpass() for what was not handed in
ManualPrompt ==
  /\ pc = "manual_prompt"
  /\ cnt' = [cnt EXCEPT !.credPrompts =
               @ + (IF mu = PyNone THEN 1 ELSE 0) + (IF mp = PyNone THEN 1 ELSE 0)]
  /\ mu' = IF mu = PyNone THEN "typed-user" ELSE mu
  /\ mp' = IF mp = PyNone THEN "typed-pw" ELSE mp
  /\ pc' = "manual_fetch"
  /\ UNCHANGED <<args, e, thrown, attemptErr, raisedErr, result, succHdr,
                 cookieHeader, saves, atCall, nLogins>>
  /\ UNCHANGED vaultVars
  /\ UNCHANGED histVars
  /\ UNCHANGED <<sv, vf, cookieFile, cookieOp>>

\* __manual_login that saves whatever extract() returned
ManualFetchAlwaysSave(resp) ==
  /\ pc = "manual_fetch"
  /\ cnt' = [cnt EXCEPT !.manualFetches = @ + 1,
                        !.rejected = IF resp.status = "unauthorized"
                                       THEN @ + 1 ELSE @]
  /\ CASE resp.status = "ok" ->
            /\ result' = [user |-> "user", via |-> "manual"]
            /\ succHdr' = resp.headers
            /\ pc' = "login_returned"
            /\ LoginSave(Extract(resp.headers))
            /\ UNCHANGED <<e, thrown, attemptErr>>
       [] resp.status = "unauthorized" ->
            /\ e' = ErrOf(resp, "manual_fetch")
            /\ thrown' = ErrOf(resp, "manual_fetch")
            /\ pc' = "two_factor"
            /\ UNCHANGED <<file, keyring, nextKey, ct, src, saves, savedBag,
                           prevBag, result, succHdr, attemptErr>>
       [] OTHER ->
            /\ Raise(ErrOf(resp, "manual_fetch"))
            /\ UNCHANGED <<file, keyring, nextKey, ct, src, saves, savedBag,
                           prevBag, result, succHdr, e>>
  /\ UNCHANGED <<args, mu, mp, raisedErr, cookieHeader, atCall, nLogins, last,
                 sv, vf, cookieFile, cookieOp>>

\* __manual_login that saves the bag a rejection carries before the challenge
ManualFetchSavesRejected(resp) ==
  /\ pc = "manual_fetch"
  /\ cnt' = [cnt EXCEPT !.manualFetches = @ + 1,
                        !.rejected = IF resp.status = "unauthorized"
                                       THEN @ + 1 ELSE @]
  /\ CASE resp.status = "ok" ->
            /\ result' = [user |-> "user", via |-> "manual"]
            /\ succHdr' = resp.headers
            /\ pc' = "login_returned"
            /\ IF Extract(resp.headers).some
                 THEN LoginSave(Extract(resp.headers))
                 ELSE UNCHANGED <<file, keyring, nextKey, ct, src, saves,
                                  savedBag, prevBag>>
            /\ UNCHANGED <<e, thrown, attemptErr>>
       [] resp.status = "unauthorized" ->
            /\ e' = ErrOf(resp, "manual_fetch")
            /\ thrown' = ErrOf(resp, "manual_fetch")
            /\ pc' = "two_factor"
            /\ IF Extract(resp.headers).some
                 THEN LoginSave(Extract(resp.headers))
                 ELSE UNCHANGED <<file, keyring, nextKey, ct, src, saves,
                                  savedBag, prevBag>>
            /\ UNCHANGED <<result, succHdr, attemptErr>>
       [] OTHER ->
            /\ Raise(ErrOf(resp, "manual_fetch"))
            /\ UNCHANGED <<file, keyring, nextKey, ct, src, saves, savedBag,
                           prevBag, result, succHdr, e>>
  /\ UNCHANGED <<args, mu, mp, raisedErr, cookieHeader, atCall, nLogins, last,
                 sv, vf, cookieFile, cookieOp>>

\* __manual_login: the try block
ManualFetch(resp) ==
  /\ pc = "manual_fetch"
  /\ cnt' = [cnt EXCEPT !.manualFetches = @ + 1,
                        !.rejected = IF resp.status = "unauthorized"
                                       THEN @ + 1 ELSE @]
  /\ CASE resp.status = "ok" ->
            /\ result' = [user |-> "user", via |-> "manual"]
            /\ succHdr' = resp.headers
            /\ pc' = "login_returned"
            /\ IF Extract(resp.headers).some
                 THEN LoginSave(Extract(resp.headers))
                 ELSE UNCHANGED <<file, keyring, nextKey, ct, src, saves,
                                  savedBag, prevBag>>
            /\ UNCHANGED <<e, thrown, attemptErr>>
       [] resp.status = "unauthorized" ->
            /\ e' = ErrOf(resp, "manual_fetch")
            /\ thrown' = ErrOf(resp, "manual_fetch")
            /\ pc' = "two_factor"
            /\ UNCHANGED <<file, keyring, nextKey, ct, src, saves, savedBag,
                           prevBag, result, succHdr, attemptErr>>
       [] OTHER ->
            /\ Raise(ErrOf(resp, "manual_fetch"))
            /\ UNCHANGED <<file, keyring, nextKey, ct, src, saves, savedBag,
                           prevBag, result, succHdr, e>>
  /\ UNCHANGED <<args, mu, mp, raisedErr, cookieHeader, atCall, nLogins, last,
                 sv, vf, cookieFile, cookieOp>>

\* __two_factor_auth that goes on when the provider rejects the code
TwoFactorAuthIgnoresRejection(vresp) ==
  /\ pc = "two_factor"
  /\ IF Contains(e.reason, EmailPhrase)
       THEN /\ cnt' = [cnt EXCEPT !.codePrompts = @ + 1, !.emailVerifies = @ + 1,
                                  !.codeRejected =
                                    IF vresp.status = "ok" THEN @ ELSE @ + 1]
            /\ IF vresp.status = "ok"
                 THEN pc' = "refetch" /\ UNCHANGED <<thrown, attemptErr>>
                 ELSE pc' = "refetch" /\ UNCHANGED <<thrown, attemptErr>>
     ELSE IF Contains(e.reason, TotpPhrase)
       THEN /\ cnt' = [cnt EXCEPT !.codePrompts = @ + 1, !.totpVerifies = @ + 1,
                                  !.codeRejected =
                                    IF vresp.status = "ok" THEN @ ELSE @ + 1]
            /\ IF vresp.status = "ok"
                 THEN pc' = "refetch" /\ UNCHANGED <<thrown, attemptErr>>
                 ELSE pc' = "refetch" /\ UNCHANGED <<thrown, attemptErr>>
     ELSE /\ pc' = "refetch"
          /\ UNCHANGED <<cnt, thrown, attemptErr>>
  /\ UNCHANGED <<args, mu, mp, e, raisedErr, result, succHdr, cookieHeader,
                 saves, atCall, nLogins>>
  /\ UNCHANGED vaultVars
  /\ UNCHANGED histVars
  /\ UNCHANGED <<sv, vf, cookieFile, cookieOp>>

\* __two_factor_auth(auth, e.reason)
TwoFactorAuth(vresp) ==
  /\ pc = "two_factor"
  /\ IF Contains(e.reason, EmailPhrase)
       THEN /\ cnt' = [cnt EXCEPT !.codePrompts = @ + 1, !.emailVerifies = @ + 1,
                                  !.codeRejected =
                                    IF vresp.status = "ok" THEN @ ELSE @ + 1]
            /\ IF vresp.status = "ok"
                 THEN pc' = "refetch" /\ UNCHANGED <<thrown, attemptErr>>
                 ELSE Raise(ErrOf(vresp, "verify2_fa_email_code"))
     ELSE IF Contains(e.reason, TotpPhrase)
       THEN /\ cnt' = [cnt EXCEPT !.codePrompts = @ + 1, !.totpVerifies = @ + 1,
                                  !.codeRejected =
                                    IF vresp.status = "ok" THEN @ ELSE @ + 1]
            /\ IF vresp.status = "ok"
                 THEN pc' = "refetch" /\ UNCHANGED <<thrown, attemptErr>>
                 ELSE Raise(ErrOf(vresp, "verify2_fa"))
     ELSE /\ pc' = "refetch"
          /\ UNCHANGED <<cnt, thrown, attemptErr>>
  /\ UNCHANGED <<args, mu, mp, e, raisedErr, result, succHdr, cookieHeader,
                 saves, atCall, nLogins>>
  /\ UNCHANGED vaultVars
  /\ UNCHANGED histVars
  /\ UNCHANGED <<sv, vf, cookieFile, cookieOp>>

\* __manual_login that saves the bag of the rejection when there is one
RefetchPrefersRejection(resp) ==
  /\ pc = "refetch"
  /\ cnt' = [cnt EXCEPT !.manualFetches = @ + 1,
                        !.rejected = IF resp.status = "unauthorized"
                                       THEN @ + 1 ELSE @]
  /\ IF resp.status = "ok"
       THEN /\ result' = [user |-> "user", via |-> "challenge"]
            /\ succHdr' = resp.headers
            /\ pc' = "login_returned"
            /\ LoginSave(IF Extract(e.headers).some
                           THEN Extract(e.headers)
                           ELSE Extract(resp.headers))
            /\ UNCHANGED <<thrown, attemptErr>>
       ELSE /\ Raise(ErrOf(resp, "refetch"))
            /\ UNCHANGED <<file, keyring, nextKey, ct, src, saves, savedBag,
                           prevBag, result, succHdr>>
  /\ UNCHANGED <<args, mu, mp, e, raisedErr, cookieHeader, atCall, nLogins,
                 last,
                 sv, vf, cookieFile, cookieOp>>

\* __manual_login that hands a rejected re-issued fetch to the challenge
\* handler once more
RefetchChallengesAgain(resp) ==
  /\ pc = "refetch"
  /\ cnt' = [cnt EXCEPT !.manualFetches = @ + 1,
                        !.rejected = IF resp.status = "unauthorized"
                                       THEN @ + 1 ELSE @]
  /\ IF resp.status = "ok"
       THEN /\ result' = [user |-> "user", via |-> "challenge"]
            /\ succHdr' = resp.headers
            /\ pc' = "login_returned"
            /\ LoginSave(IF Extract(resp.headers).some
                           THEN Extract(resp.headers)
                           ELSE Extract(e.headers))
            /\ UNCHANGED <<e, thrown, attemptErr>>
       ELSE /\ IF resp.status = "unauthorized" /\ cnt.manualFetches < 3
                 THEN /\ e' = ErrOf(resp, "refetch")
                      /\ pc' = "two_factor"
                      /\ UNCHANGED <<thrown, attemptErr>>
                 ELSE /\ Raise(ErrOf(resp, "refetch"))
                      /\ e' = e
            /\ UNCHANGED <<file, keyring, nextKey, ct, src, saves, savedBag,
                           prevBag, result, succHdr>>
  /\ UNCHANGED <<args, mu, mp, raisedErr, cookieHeader, atCall, nLogins,
                 last,
                 sv, vf, cookieFile, cookieOp>>

\* __manual_login: the except block after __two_factor_auth returned
Refetch(resp) ==
  /\ pc = "refetch"
  /\ cnt' = [cnt EXCEPT !.manualFetches = @ + 1,
                        !.rejected = IF resp.status = "unauthorized"
                                       THEN @ + 1 ELSE @]
  /\ IF resp.status = "ok"
       THEN /\ result' = [user |-> "user", via |-> "challenge"]
            /\ succHdr' = resp.headers
            /\ pc' = "login_returned"
            /\ LoginSave(IF Extract(resp.headers).some
                           THEN Extract(resp.headers)
                           ELSE Extract(e.headers))
            /\ UNCHANGED <<thrown, attemptErr>>
       ELSE /\ Raise(ErrOf(resp, "refetch"))
            /\ UNCHANGED <<file, keyring, nextKey, ct, src, saves, savedBag,
                           prevBag, result, succHdr>>
  /\ UNCHANGED <<args, mu, mp, e, raisedErr, cookieHeader, atCall, nLogins,
                 last,
                 sv, vf, cookieFile, cookieOp>>

\* Authentication.login that hands the caller a wrapper of the error
ReraiseWrapped(err) ==
  [err EXCEPT !.kind = "RetryError", !.wraps = <<err>>]

\* Authentication.login: the except clauses
Reraise(err) ==
  IF err.kind = "RetryError" THEN err.wraps[1] ELSE err

AuthRaise ==
  /\ pc = "login_raised"
  /\ raisedErr' = Reraise(attemptErr)
  /\ pc' = "raised"
  /\ UNCHANGED <<args, mu, mp, e, thrown, attemptErr, result, succHdr,
                 cookieHeader, cnt, saves, atCall, nLogins>>
  /\ UNCHANGED vaultVars
  /\ UNCHANGED histVars
  /\ UNCHANGED <<sv, vf, cookieFile, cookieOp>>

\* Authentication.login: return result
AuthReturn ==
  /\ pc = "login_returned"
  /\ pc' = "returned"
  /\ UNCHANGED <<args, mu, mp, e, thrown, attemptErr, raisedErr, result,
                 succHdr, cookieHeader, cnt, saves, atCall, nLogins>>
  /\ UNCHANGED vaultVars
  /\ UNCHANGED histVars
  /\ UNCHANGED <<sv, vf, cookieFile, cookieOp>>

Credentials == {PyNone, "user"} \X {PyNone, "pw"}

LoginNext ==
  \/ \E c \in Credentials : CallLogin(c[1], c[2])
  \/ LoginLoad
  \/ CookieConfigure
  \/ \E resp \in CookieFetchResponses : CookieFetch(resp)
  \/ ManualPrompt
  \/ \E resp \in FetchResponses : ManualFetch(resp)
  \/ \E vresp \in VerifyResponses : TwoFactorAuth(vresp)
  \/ \E resp \in FetchResponses : Refetch(resp)
  \/ AuthRaise
  \/ AuthReturn

\* Authentication.login() calls, one after the other, on the files and
\* SecretStore entries earlier runs can have left.
LoginSpec == Init /\ [][LoginNext]_vars

\* the steps of a call that is under way
LoginSteps ==
  \/ LoginLoad
  \/ CookieConfigure
  \/ \E resp \in CookieFetchResponses : CookieFetch(resp)
  \/ ManualPrompt
  \/ \E resp \in FetchResponses : ManualFetch(resp)
  \/ \E vresp \in VerifyResponses : TwoFactorAuth(vresp)
  \/ \E resp \in FetchResponses : Refetch(resp)
  \/ AuthRaise
  \/ AuthReturn

\* The calls when every collaborator call and every prompt returns: a call
\* under way takes its next step.
LoginFairSpec == LoginSpec /\ WF_vars(LoginSteps)

Next ==
  \/ \E v \in DirectVaults : VaultLoad(v)
  \/ \E v \in DirectVaults, b \in Bags : VaultSave(v, b)
  \/ \E v \in DirectVaults, n \in Names : VaultGet(v, n)
  \/ \E v \in DirectVaults : VaultSetConfiguration(v)
  \/ \E h \in ExtractHeaders : VaultExtract(h)
  \/ EnvRemoveFile

\* The vault under direct calls of its public methods.
Spec == Init /\ [][Next]_vars

\* One sequential caller: direct vault calls between Authentication.login()
\* calls, never during one.
SeqNext ==
  \/ LoginNext
  \/ /\ pc \in {"idle", "returned", "raised"}
     /\ \/ VaultLoad("v1")
        \/ VaultSave("v1", Some(Dict2("abc123", PyNone)))
        \/ VaultGet("v1", "auth")
        \/ VaultSetConfiguration("v1")

SeqSpec == Init /\ [][SeqNext]_vars

(***************************************************************************)
(* CookieVault.save(cookies) one call at a time, for two callers v1 and v2 *)
(* that run it concurrently, each on its own vault instance, against one   *)
(* file and one SecretStore entry.  ok = FALSE is the platform failing the *)
(* call of the step.                                                       *)
(***************************************************************************)
\* The dicts the two concurrent callers save; their tokens differ in length.
SaveBags == {Some(Dict1("auth", "abc123")), Some(Dict2("xyz", "123"))}

\* len(json.dumps({n: v})) without the braces: "n": "v" or "n": null
EntryLen(n, v) == Len(n) + 4 + (IF v = PyNone THEN 4 ELSE Len(v) + 2)

\* len(json.dumps(cookies)) for the dicts of SaveBags and for None
JsonLen(cookies) ==
  IF ~cookies.some THEN 4
  ELSE IF DOMAIN cookies.d = Names
    THEN 2 + EntryLen("auth", cookies.d["auth"]) + 2
           + EntryLen("twoFactorAuth", cookies.d["twoFactorAuth"])
  ELSE IF DOMAIN cookies.d = {"auth"}
    THEN 2 + EntryLen("auth", cookies.d["auth"])
  ELSE IF DOMAIN cookies.d = {"twoFactorAuth"}
    THEN 2 + EntryLen("twoFactorAuth", cookies.d["twoFactorAuth"])
  ELSE 2

\* AES-CBC blocks of a Fernet token: PKCS7 always pads, 16 bytes a block
Blocks(bytes) == (JsonLen(JsonLoads(bytes.plain)) \div 16) + 1

\* write(token) from offset 0 into a file that holds old: what the file can
\* hold afterwards.  A longer old token leaves its tail behind the new one;
\* the remains of a failed write may be longer or not.
Overwrite(old, token) ==
  IF old.kind = "token" /\ Blocks(old) > Blocks(token) THEN {Garbage}
  ELSE IF old.kind = "garbage" THEN {token, Garbage}
  ELSE {token}

\* save() leaves with an exception
SaveFail(v, err, step) ==
  sv' = [sv EXCEPT ![v].pc = "failed", ![v].err = err, ![v].inj = step]

\* json.dumps(cookies); _get_key: keyring.get_password(service, account),
\* and Fernet.generate_key() when it returned None
SaveGetPassword(v, cookies, ok) ==
  /\ sv[v].pc = "idle"
  /\ IF ~ok
       THEN /\ sv' = [sv EXCEPT ![v].pc = "failed", ![v].bag = cookies,
                                ![v].err = "KeyringError",
                                ![v].inj = "get_password"]
            /\ UNCHANGED nextKey
     ELSE IF keyring = NoKey
       THEN /\ sv' = [sv EXCEPT ![v].pc = "set_password", ![v].bag = cookies,
                                ![v].key = nextKey, ![v].sawNone = TRUE]
            /\ nextKey' = nextKey + 1
       ELSE /\ sv' = [sv EXCEPT ![v].pc = "mkdir", ![v].bag = cookies,
                                ![v].key = keyring,
                                ![v].token =
                                  FernetEncrypt(keyring, JsonDumps(cookies))]
            /\ UNCHANGED nextKey
  /\ UNCHANGED <<file, keyring, ct, src>>
  /\ UNCHANGED histVars
  /\ UNCHANGED loginVars
  /\ UNCHANGED <<vf, cookieFile, cookieOp>>

\* _get_key: keyring.set_password(service, account, key); _fernet().encrypt
SaveSetPassword(v, ok) ==
  /\ sv[v].pc = "set_password"
  /\ IF ok
       THEN /\ keyring' = sv[v].key
            /\ sv' = [sv EXCEPT ![v].pc = "mkdir",
                                ![v].token =
                                  FernetEncrypt(sv[v].key,
                                                JsonDumps(sv[v].bag))]
       ELSE /\ SaveFail(v, "KeyringError", "set_password")
            /\ UNCHANGED keyring
  /\ UNCHANGED <<file, nextKey, ct, src>>
  /\ UNCHANGED histVars
  /\ UNCHANGED loginVars
  /\ UNCHANGED <<vf, cookieFile, cookieOp>>

\* store_path.parent.mkdir(parents=True, exist_ok=True)
SaveMkdir(v, ok) ==
  /\ sv[v].pc = "mkdir"
  /\ IF ok THEN sv' = [sv EXCEPT ![v].pc = "open"]
           ELSE SaveFail(v, "OSError", "mkdir")
  /\ UNCHANGED vaultVars
  /\ UNCHANGED histVars
  /\ UNCHANGED loginVars
  /\ UNCHANGED <<vf, cookieFile, cookieOp>>

\* store_path.write_bytes(token): open(mode="wb") truncates the file
SaveOpen(v, ok) ==
  /\ sv[v].pc = "open"
  /\ IF ok
       THEN /\ file' = EmptyBytes
            /\ sv' = [sv EXCEPT ![v].pc = "write"]
            /\ savedBag' = NoSaved
            /\ prevBag' = NoSaved
       ELSE /\ SaveFail(v, "OSError", "open")
            /\ UNCHANGED <<file, savedBag, prevBag>>
  /\ UNCHANGED <<keyring, nextKey, ct, src, last>>
  /\ UNCHANGED loginVars
  /\ UNCHANGED <<vf, cookieFile, cookieOp>>

\* save() that assigns _ciphertext before it writes the file
SaveWriteAssignsFirst(v, ok) ==
  /\ sv[v].pc = "write"
  /\ ct' = [ct EXCEPT ![v] = sv[v].token]
  /\ src' = [src EXCEPT ![v] = "save"]
  /\ IF ok
       THEN /\ file' \in Overwrite(file, sv[v].token)
            /\ sv' = [sv EXCEPT ![v].pc = "chmod", ![v].wrote = TRUE,
                                ![v].seq = 1 + Cardinality(
                                  {u \in DirectVaults : sv[u].wrote})]
            /\ savedBag' = IF file' = sv[v].token
                             THEN [valid |-> TRUE, bag |-> sv[v].bag]
                             ELSE NoSaved
       ELSE /\ file' \in {file, Garbage}
            /\ SaveFail(v, "OSError", "write")
            /\ savedBag' = NoSaved
  /\ prevBag' = NoSaved
  /\ UNCHANGED <<keyring, nextKey, last>>
  /\ UNCHANGED loginVars
  /\ UNCHANGED <<vf, cookieFile, cookieOp>>

\* store_path.write_bytes(token): f.write(token), and on return
\* self._ciphertext = token; a failed write leaves what it got to write
SaveWrite(v, ok) ==
  /\ sv[v].pc = "write"
  /\ IF ok
       THEN /\ file' \in Overwrite(file, sv[v].token)
            /\ ct' = [ct EXCEPT ![v] = sv[v].token]
            /\ src' = [src EXCEPT ![v] = "save"]
            /\ sv' = [sv EXCEPT ![v].pc = "chmod", ![v].wrote = TRUE,
                                ![v].seq = 1 + Cardinality(
                                  {u \in DirectVaults : sv[u].wrote})]
            /\ savedBag' = IF file' = sv[v].token
                             THEN [valid |-> TRUE, bag |-> sv[v].bag]
                             ELSE NoSaved
       ELSE /\ file' \in {file, Garbage}
            /\ SaveFail(v, "OSError", "write")
            /\ savedBag' = NoSaved
            /\ UNCHANGED <<ct, src>>
  /\ prevBag' = NoSaved
  /\ UNCHANGED <<keyring, nextKey, last>>
  /\ UNCHANGED loginVars
  /\ UNCHANGED <<vf, cookieFile, cookieOp>>

\* save() in which a failing chmod leaves the call with its exception
SaveChmodPropagates(v, ok) ==
  /\ sv[v].pc = "chmod"
  /\ IF ok THEN sv' = [sv EXCEPT ![v].pc = "done"]
           ELSE SaveFail(v, "OSError", "chmod")
  /\ UNCHANGED vaultVars
  /\ UNCHANGED histVars
  /\ UNCHANGED loginVars
  /\ UNCHANGED <<vf, cookieFile, cookieOp>>

\* with suppress(Exception): os.chmod(store_path, 0o600); save() returns
SaveChmod(v, ok) ==
  /\ sv[v].pc = "chmod"
  /\ sv' = [sv EXCEPT ![v].pc = "done",
                      ![v].inj = IF ok THEN "none" ELSE "chmod"]
  /\ UNCHANGED vaultVars
  /\ UNCHANGED histVars
  /\ UNCHANGED loginVars
  /\ UNCHANGED <<vf, cookieFile, cookieOp>>

\* The two callers' saves in any interleaving, and a third instance's load()
SaveNext ==
  \/ \E v \in DirectVaults, cookies \in SaveBags, ok \in BOOLEAN :
       SaveGetPassword(v, cookies, ok)
  \/ \E v \in DirectVaults, ok \in BOOLEAN : SaveSetPassword(v, ok)
  \/ \E v \in DirectVaults, ok \in BOOLEAN : SaveMkdir(v, ok)
  \/ \E v \in DirectVaults, ok \in BOOLEAN : SaveOpen(v, ok)
  \/ \E v \in DirectVaults, ok \in BOOLEAN : SaveWrite(v, ok)
  \/ \E v \in DirectVaults, ok \in BOOLEAN : SaveChmod(v, ok)
  \/ VaultLoad("lv")

SaveSpec == Init /\ [][SaveNext]_vars

\* The two callers' saves in any interleaving, each on a vault that may have
\* loaded the file before its save() is called
LoadSaveNext ==
  \/ \E v \in DirectVaults : sv[v].pc = "idle" /\ VaultLoad(v)
  \/ \E v \in DirectVaults, cookies \in SaveBags, ok \in BOOLEAN :
       SaveGetPassword(v, cookies, ok)
  \/ \E v \in DirectVaults, ok \in BOOLEAN : SaveSetPassword(v, ok)
  \/ \E v \in DirectVaults, ok \in BOOLEAN : SaveMkdir(v, ok)
  \/ \E v \in DirectVaults, ok \in BOOLEAN : SaveOpen(v, ok)
  \/ \E v \in DirectVaults, ok \in BOOLEAN : SaveWrite(v, ok)
  \/ \E v \in DirectVaults, ok \in BOOLEAN : SaveChmod(v, ok)

LoadSaveSpec == Init /\ [][LoadSaveNext]_vars

(***************************************************************************)
(* verify_auth_token(agent, vault), one step per call it makes on the      *)
(* vault or the provider, called by the caller of Authentication.login()   *)
(* between its login() calls.                                              *)
(***************************************************************************)
\* AuthenticationApi.verify_auth_token(): {ok, token}, or an ApiException
AuthTokenResponses ==
  { [raises |-> FALSE, ok |-> TRUE,  token |-> "abc123"],
    [raises |-> FALSE, ok |-> FALSE, token |-> "abc123"],
    [raises |-> TRUE,  ok |-> FALSE, token |-> PyNone] }

\* verify_auth_token(vault=w) is called; an fv is built for the call
CallVerify(w) ==
  /\ vf.pc \in {"idle", "returned", "raised"}
  /\ pc \in {"idle", "returned", "raised"}
  /\ vf.n < MaxVerifies
  /\ ct' = IF w = "fv" THEN [ct EXCEPT ![w] = NoBytes] ELSE ct
  /\ src' = IF w = "fv" THEN [src EXCEPT ![w] = "init"] ELSE src
  /\ vf' = [NoVerify EXCEPT !.pc = "check", !.vault = w, !.n = vf.n + 1,
                            !.activeAtCall = IsActive(ct'[w]),
                            !.logins = nLogins]
  /\ UNCHANGED <<file, keyring, nextKey>>
  /\ UNCHANGED histVars
  /\ UNCHANGED loginVars
  /\ UNCHANGED <<sv, cookieFile, cookieOp>>

\* if not vault.is_active: vault.load(); if not vault.is_active: return False
VerifyLoad ==
  /\ vf.pc = "check"
  /\ LET w     == vf.vault
         loads == ~IsActive(ct[w])
         c     == IF loads THEN Load(file) ELSE ct[w]
     IN /\ ct' = [ct EXCEPT ![w] = c]
        /\ src' = IF loads THEN [src EXCEPT ![w] = "load"] ELSE src
        /\ vf' = [vf EXCEPT !.loads = IF loads THEN 1 ELSE 0,
                            !.active = IsActive(c),
                            !.pc = IF IsActive(c) THEN "configure"
                                                  ELSE "returned",
                            !.ret = FALSE]
  /\ UNCHANGED <<file, keyring, nextKey>>
  /\ UNCHANGED histVars
  /\ UNCHANGED loginVars
  /\ UNCHANGED <<sv, cookieFile, cookieOp>>

\* vault.set_configuration(client)
VerifyConfigure ==
  /\ vf.pc = "configure"
  /\ LET r == SetConfiguration(ct[vf.vault], keyring, nextKey)
     IN /\ keyring' = r.keyring
        /\ nextKey' = r.nextKey
        /\ vf' = IF r.err = "none"
                   THEN [vf EXCEPT !.pc = "verify", !.hdr = r.header,
                                   !.configured = @ + 1]
                   ELSE [vf EXCEPT !.pc = "raised", !.err = r.err]
  /\ UNCHANGED <<file, ct, src>>
  /\ UNCHANGED histVars
  /\ UNCHANGED loginVars
  /\ UNCHANGED <<sv, cookieFile, cookieOp>>

\* verify_auth_token() that reports every answered check as valid
VerifyCheckAlwaysTrue(resp) ==
  /\ vf.pc = "verify"
  /\ vf' = IF resp.raises
             THEN [vf EXCEPT !.pc = "raised", !.net = @ + 1,
                             !.err = "ApiException"]
             ELSE [vf EXCEPT !.pc = "returned", !.net = @ + 1,
                             !.answered = TRUE, !.ok = resp.ok,
                             !.ret = TRUE]
  /\ UNCHANGED vaultVars
  /\ UNCHANGED histVars
  /\ UNCHANGED loginVars
  /\ UNCHANGED <<sv, cookieFile, cookieOp>>

\* result = auth.verify_auth_token(); return result.ok
VerifyCheck(resp) ==
  /\ vf.pc = "verify"
  /\ vf' = IF resp.raises
             THEN [vf EXCEPT !.pc = "raised", !.net = @ + 1,
                             !.err = "ApiException"]
             ELSE [vf EXCEPT !.pc = "returned", !.net = @ + 1,
                             !.answered = TRUE, !.ok = resp.ok,
                             !.ret = resp.ok]
  /\ UNCHANGED vaultVars
  /\ UNCHANGED histVars
  /\ UNCHANGED loginVars
  /\ UNCHANGED <<sv, cookieFile, cookieOp>>

\* One caller that calls Authentication.login() and verify_auth_token(),
\* one at a time.
VerifyNext ==
  \/ (vf.pc \in {"idle", "returned", "raised"} /\ LoginNext)
  \/ \E w \in VerifyVaults : CallVerify(w)
  \/ VerifyLoad
  \/ VerifyConfigure
  \/ \E resp \in AuthTokenResponses : VerifyCheck(resp)

VerifySpec == Init /\ [][VerifyNext]_vars

(***************************************************************************)
(* Direct calls of the plain-cookie variant's Cookie methods.              *)
(***************************************************************************)
plainFrame == <<file, keyring, nextKey, ct, src, last, savedBag, prevBag,
                pc, args, mu, mp, e, thrown, attemptErr, raisedErr, result,
                succHdr, cookieHeader, cnt, saves, atCall, nLogins, sv, vf>>

\* Cookie.load(): found is the content it found at the path
CookieLoad ==
  /\ cookieOp' = PlainOp("load", PlainLoadErr(cookieFile),
                         IF PlainLoadErr(cookieFile) = "none"
                           THEN PlainLoad(cookieFile) ELSE NoCookie,
                         HNone, cookieFile)
  /\ UNCHANGED cookieFile
  /\ UNCHANGED plainFrame

\* Cookie(auth=auth).save()
CookieSave(auth) ==
  /\ cookieFile' = PlainSave(CookieOf(auth))
  /\ cookieOp' = PlainOp("save", "none", CookieOf(auth), HNone, cookieFile)
  /\ UNCHANGED plainFrame

\* Cookie.extract(header)
CookieExtract(header) ==
  /\ cookieOp' = PlainOp("extract", ExtractErr(header),
                         IF ExtractErr(header) = "none"
                           THEN PlainExtract(header) ELSE NoCookie,
                         header, cookieFile)
  /\ UNCHANGED cookieFile
  /\ UNCHANGED plainFrame

\* The environment leaves other content at the path, or removes the file.
EnvPlainWrite(content) ==
  /\ cookieFile # content
  /\ cookieFile' = content
  /\ cookieOp' = PlainOp("write", "none", NoCookie, HNone, cookieFile)
  /\ UNCHANGED plainFrame

PlainNext ==
  \/ CookieLoad
  \/ \E auth \in PlainAuths : CookieSave(auth)
  \/ \E header \in ExtractHeaders : CookieExtract(header)
  \/ \E content \in PlainContents \cup {PlainMissing} : EnvPlainWrite(content)

PlainSpec == Init /\ [][PlainNext]_vars

(***************************************************************************)
(* Properties of Authentication.login(), checked under LoginSpec.          *)
(***************************************************************************)
Fetches == cnt.cookieFetches + cnt.manualFetches

Verifies == cnt.emailVerifies + cnt.totpVerifies

Finished == pc \in {"returned", "raised"}

\* C1: when the provider has rejected every identity fetch of a call with
\* Unauthorized and the call has raised to its caller, the call has made
\* exactly LOGIN_RETRY_LIMIT top-level attempts (vault loads).
C1_RetryBound ==
  (pc = "raised" /\ Fetches > 0 /\ cnt.rejected = Fetches
     /\ raisedErr.kind = "Unauthorized")
    => cnt.attempts = LOGIN_RETRY_LIMIT

\* C2: the error Authentication.login() raises is the error that left the
\* last attempt, which is the error the last failing callee threw: same
\* kind, reason and headers, no wrapper, not an earlier error.
C2_LastErrorVerbatim ==
  pc = "raised" =>
    /\ raisedErr = attemptErr
    /\ raisedErr = thrown
    /\ raisedErr.kind \notin {"none", "RetryError"}
    /\ raisedErr.wraps = <<>>

\* a call whose manual fetch was rejected, whose challenge was resolved and
\* whose re-issued fetch was rejected again has raised that last rejection
C2_Witness ==
  /\ pc = "raised"
  /\ e.kind = "Unauthorized"
  /\ raisedErr.kind = "Unauthorized"
  /\ raisedErr.at = "refetch"
  /\ raisedErr.reason # e.reason

\* C3: a call that was handed both username and password never prompts for
\* a username or a password.
C3_NoPromptWhenSupplied ==
  (args.username # PyNone /\ args.password # PyNone) => cnt.credPrompts = 0

\* C4: a call that returns because the provider accepted the stored cookie
\* made one identity fetch, no prompt, no verification and no Vault.save,
\* and left file, in-memory ciphertext and SecretStore entry as they were.
C4_CookieSuccessFrame ==
  (pc \in {"login_returned", "returned"} /\ result.via = "cookie") =>
    /\ Fetches = 1
    /\ cnt.credPrompts = 0
    /\ cnt.codePrompts = 0
    /\ Verifies = 0
    /\ saves = <<>>
    /\ file = atCall.file
    /\ ct["lv"] = atCall.file
    /\ keyring = atCall.keyring

C4_Witness ==
  /\ pc = "returned"
  /\ result.via = "cookie"
  /\ cnt.cookieFetches = 1
  /\ atCall.file.kind = "token"

\* the stored cookie was rejected and the first manual fetch was accepted
CookieRejectedManualAccepted ==
  /\ pc = "returned"
  /\ cnt.cookieFetches = 1
  /\ result.via = "manual"
  /\ result.user = "user"

\* C5 as stated: with the stored cookie rejected and the manual credentials
\* accepted, Vault.save was called exactly once, with the bag extracted from
\* the success response headers.
C5_SaveExactlyOnce ==
  CookieRejectedManualAccepted =>
    /\ Len(saves) = 1
    /\ saves[1].some
    /\ saves[1] = Extract(succHdr)

\* C5 amended: with the stored cookie rejected and the manual credentials
\* accepted at the first manual fetch, Vault.save was called exactly once
\* with the bag of the success headers when they carry a non-empty auth
\* cookie, and not at all when they carry none.
C5_SaveOnceIfBag ==
  CookieRejectedManualAccepted =>
    IF \E i \in DOMAIN succHdr.sc :
         succHdr.sc[i][1] = "auth" /\ succHdr.sc[i][2] # ""
      THEN /\ Len(saves) = 1
           /\ saves[1].some
           /\ saves[1] = Extract(succHdr)
           /\ \E i \in DOMAIN succHdr.sc :
                succHdr.sc[i] = <<"auth", saves[1].d["auth"]>>
      ELSE saves = <<>>

C5_Witness ==
  /\ CookieRejectedManualAccepted
  /\ saves = <<Some(Dict2("xyz", "123"))>>
  /\ file # atCall.file

\* C6: when the manual identity fetch was rejected with a reason that holds
\* no second-factor phrase, the finished call made no verification and no
\* further identity fetch and raised that same rejection.
C6_NoRefetchWithoutChallenge ==
  (Finished /\ e.kind = "Unauthorized"
     /\ ~Contains(e.reason, EmailPhrase) /\ ~Contains(e.reason, TotpPhrase))
    => /\ Verifies = 0
       /\ cnt.manualFetches = 1
       /\ pc = "raised"
       /\ raisedErr = e

\* C7: every bag handed to Vault.save during a call is a dict whose auth
\* value is a non-empty string.
C7_SavedBagsPresent ==
  \A i \in DOMAIN saves :
    /\ saves[i].some
    /\ "auth" \in DOMAIN saves[i].d
    /\ IsStr(saves[i].d["auth"])
    /\ saves[i].d["auth"] # ""

\* C9: a finished call that found a vault file whose bytes do not decrypt
\* under the key SecretStore held raised the decryption error, after no
\* identity fetch, no prompt and no Vault.save, the file untouched.
C9_DecryptionErrorOnMismatch ==
  (Finished /\ atCall.file # NoBytes /\ atCall.keyring # NoKey
     /\ FernetDecrypt(atCall.keyring, atCall.file).err # "none")
    => /\ pc = "raised"
       /\ raisedErr.kind = "InvalidToken"
       /\ Fetches = 0
       /\ cnt.credPrompts = 0
       /\ saves = <<>>
       /\ file = atCall.file

(***************************************************************************)
(* Properties of the vault under direct calls, checked under Spec.         *)
(***************************************************************************)
\* what get(name) owes for a saved dict d
Stored(d, name) ==
  IF name \in DOMAIN d /\ IsStr(d[name]) THEN d[name] ELSE PyNone

\* C8: a get(name) on a vault whose ciphertext is the file last written by
\* save(B), be it the saving vault or one that loaded the file, returns
\* B[name] when that is a string and None otherwise; B is the dict of the
\* latest save only.
C8_RoundTrip ==
  (last.op = "get" /\ savedBag.valid /\ savedBag.bag.some
     /\ src[last.v] # "init" /\ ct[last.v] = file)
    => /\ last.err = "none"
       /\ last.val = Stored(savedBag.bag.d, last.name)

\* a vault that loaded the file of a second save reads an entry of the
\* first dict as absent
C8_Witness ==
  /\ last.op = "get"
  /\ last.v = "v2"
  /\ src["v2"] = "load"
  /\ src["v1"] = "save"
  /\ ct["v2"] = file
  /\ savedBag = [valid |-> TRUE, bag |-> Some(Dict1("auth", "abc123"))]
  /\ prevBag = [valid |-> TRUE, bag |-> Some(Dict2("xyz", "123"))]
  /\ last.name = "twoFactorAuth"
  /\ last.val = PyNone
  /\ last.err = "none"

\* C10: is_active is "_ciphertext is not None"; it is true right after a
\* save(), and right after a load() it is true exactly when the file
\* existed at that load.
C10_ActivityInvariant ==
  /\ \A v \in Vaults : IsActive(ct[v]) <=> ct[v].kind # "none"
  /\ last.op = "save" => IsActive(ct[last.v])
  /\ last.op = "load" => (IsActive(ct[last.v]) <=> last.existed)

\* a vault that was active is inactive after a load() of the removed file
C10_Witness ==
  /\ last.op = "load"
  /\ last.before
  /\ ~last.existed
  /\ ~IsActive(ct[last.v])

\* C11: a get() on an active vault (_ciphertext is not None, a zero-length
\* file that load() read included) never raises the "vault is empty"
\* RuntimeError.
C11_NoVaultEmptyWhenActive ==
  (last.op = "get" /\ IsActive(ct[last.v])) => last.err # "RuntimeError"

\* C13: load(), get() and set_configuration() leave the SecretStore entry
\* as they found it, also when it is missing while the vault file exists.
C13_ReadsNeverWriteKey ==
  last.op \in {"load", "get", "set_configuration"} => keyring = last.kr

\* the header the claim C17 states for a saved dict d
HeaderFor(d) ==
  LET a == Stored(d, "auth")
      f == Stored(d, "twoFactorAuth")
  IN IF a = PyNone THEN ""
     ELSE IF f = PyNone THEN "auth=" \o a
     ELSE "auth=" \o a \o "; twoFactorAuth=" \o f

\* C17: set_configuration() on a vault that holds the saved dict d sets the
\* header "auth=T", "auth=T; twoFactorAuth=F", or "" when d has no auth.
C17_HeaderFormat ==
  (last.op = "set_configuration" /\ savedBag.valid /\ savedBag.bag.some
     /\ src[last.v] # "init" /\ ct[last.v] = file)
    => /\ last.err = "none"
       /\ last.val = HeaderFor(savedBag.bag.d)

\* C18: extract() of the two-string Set-Cookie list returns the merged bag
\* {auth: "xyz", twoFactorAuth: "123"} and raises nothing.
C18_ListAccepted ==
  (last.op = "extract" /\ last.hdr = HList)
    => /\ last.err = "none"
       /\ last.arg = Some(Dict2("xyz", "123"))

\* all cookie strings of a list value, one after the other
RECURSIVE Flatten(_)
Flatten(items) ==
  IF items = <<>> THEN <<>> ELSE Head(items) \o Flatten(Tail(items))

\* the auth value of the jar merged from every cookie string of the entry
AuthCookie(h) ==
  LET all == IF UpperTruthy(h)
               THEN (IF h.isList THEN Flatten(h.items) ELSE h.sc)
               ELSE IF h.hasLower THEN h.lower ELSE <<>>
      jar == Jar(all)
  IN IF "auth" \in DOMAIN jar THEN jar["auth"] ELSE PyNone

\* C19: extract() never raises; it returns None exactly when the headers
\* are None, hold neither entry, or the jar has no non-empty auth, and
\* otherwise a dict whose auth is that cookie value.
C19_AbsentExactly ==
  last.op = "extract" =>
    /\ last.err = "none"
    /\ IF last.hdr.none \/ (~last.hdr.has /\ ~last.hdr.hasLower)
            \/ AuthCookie(last.hdr) \in {PyNone, ""}
         THEN last.arg = NoBag
         ELSE /\ last.arg.some
              /\ last.arg.d["auth"] = AuthCookie(last.hdr)

\* C12: for a sequential caller, any sequence of save(), get(),
\* set_configuration() and login() writes the SecretStore entry at most once:
\* an entry that exists is never replaced or deleted, an entry is only ever
\* written with the one freshly generated key, and every token an operation
\* writes to the file is encrypted under the entry the operation leaves.
C12_KeyWrittenOnce ==
  [][ /\ (keyring # NoKey => keyring' = keyring)
      /\ (keyring' # keyring => keyring' = nextKey /\ nextKey' = nextKey + 1)
      /\ (keyring' = keyring => nextKey' = nextKey)
      /\ ((file' # file /\ file' # NoBytes) =>
            file'.kind = "token" /\ file'.key = keyring') ]_vars

\* the entry was minted by a direct get(), and a later login() saved a token
\* under that same entry
C12_Witness ==
  /\ keyring = 3
  /\ nextKey = 4
  /\ pc = "returned"
  /\ Len(saves) > 0
  /\ atCall.keyring = 3
  /\ file.kind = "token"
  /\ file.key = 3

\* C14: when two callers that both found no SecretStore entry have run save()
\* concurrently and both have returned, the vault file and each caller's
\* _ciphertext decrypt under the key the SecretStore holds in the end.
C14_ConcurrentFirstKey ==
  (\A v \in DirectVaults : sv[v].pc = "done" /\ sv[v].sawNone) =>
    /\ FernetDecrypt(keyring, file).err = "none"
    /\ \A v \in DirectVaults : FernetDecrypt(keyring, ct[v]).err = "none"

\* C15: save() writes atomically: whenever the content of the vault file
\* changes, during a save, at its end or at its failure, the file then holds
\* a complete token, never an empty or a partial one.
C15_AtomicWrite ==
  [][file' # file => file'.kind = "token"]_vars

\* C16: a chmod failure is the only failure save() swallows: with it save()
\* returns normally, the file written and _ciphertext the new token; a
\* failure of the SecretStore, of mkdir or of the file write leaves save()
\* as its exception, _ciphertext untouched; save() fails for no other reason.
C16_OnlyChmodSwallowed ==
  \A v \in DirectVaults :
    /\ sv[v].inj = "chmod" =>
         /\ sv[v].pc = "done"
         /\ sv[v].err = "none"
         /\ sv[v].wrote
         /\ ct[v] = sv[v].token
    /\ sv[v].inj \in {"get_password", "set_password"} =>
         /\ sv[v].pc = "failed"
         /\ sv[v].err = "KeyringError"
         /\ ct[v] = NoBytes
    /\ sv[v].inj \in {"mkdir", "open", "write"} =>
         /\ sv[v].pc = "failed"
         /\ sv[v].err = "OSError"
         /\ ct[v] = NoBytes
    /\ sv[v].pc = "done" =>
         /\ sv[v].err = "none"
         /\ sv[v].wrote
         /\ ct[v] = sv[v].token
    /\ sv[v].pc = "failed" => sv[v].inj \notin {"none", "chmod"}

\* one caller's save() returned although chmod failed, its token in the file;
\* the other caller's save() failed at the file write
C16_Witness ==
  /\ sv["v1"].pc = "done"
  /\ sv["v1"].inj = "chmod"
  /\ sv["v1"].token.kind = "token"
  /\ file = sv["v1"].token
  /\ ct["v1"] = file
  /\ sv["v2"].pc = "failed"
  /\ sv["v2"].inj = "write"

\* C20: a verify_auth_token() call loads the vault once exactly when the
\* vault was inactive at the call; with the vault still inactive it returns
\* False having configured nothing and made no network call; with an active
\* vault it makes at most one validity check, and when it returns it has set
\* the vault's Cookie header once, made exactly one check and returns the
\* boolean ok of the provider's answer; it leaves by an exception only with
\* an active vault, and after a failed set_configuration without any check.
C20_VerifyContract ==
  /\ vf.net <= 1
  /\ vf.configured <= 1
  /\ vf.pc \in {"returned", "raised"} =>
       /\ vf.loads = IF vf.activeAtCall THEN 0 ELSE 1
       /\ vf.active = IsActive(ct[vf.vault])
       /\ ~vf.active =>
            /\ vf.pc = "returned"
            /\ vf.ret = FALSE
            /\ vf.net = 0
            /\ vf.configured = 0
       /\ (vf.active /\ vf.pc = "returned") =>
            /\ vf.configured = 1
            /\ vf.hdr = SetConfiguration(ct[vf.vault], keyring, nextKey).header
            /\ vf.net = 1
            /\ vf.answered
            /\ vf.ret = vf.ok
       /\ vf.pc = "raised" =>
            /\ vf.active
            /\ vf.net = vf.configured

\* the second call on the default vault finds it active, does not load, and
\* returns the provider's True; the first call had loaded the file
C20_Witness ==
  /\ vf.pc = "returned"
  /\ vf.vault = "dv"
  /\ vf.n = 2
  /\ vf.activeAtCall
  /\ vf.loads = 0
  /\ vf.net = 1
  /\ vf.ok
  /\ vf.ret

\* the login() call started without a vault file and without credentials,
\* and the provider accepted its first identity fetch, setting auth=abc123
FirstLoginAccepted ==
  /\ pc = "returned"
  /\ atCall.file = NoBytes
  /\ args = [username |-> PyNone, password |-> PyNone]
  /\ cnt.rejected = 0
  /\ succHdr = HAuth

\* verify_auth_token() was called on a vault built for the call after the
\* last login() call had ended, and has ended itself
VerifiedAfterLogin ==
  /\ vf.vault = "fv"
  /\ vf.logins = nLogins
  /\ vf.pc \in {"returned", "raised"}

\* C21: starting with no vault file, login(None, None, agent) whose first
\* identity fetch is accepted with auth=abc123 has prompted for username and
\* password, made one fetch and saved one bag with auth "abc123", which is
\* the file's content; a later verify_auth_token() on a fresh vault loads
\* the file, sends the Cookie header "auth=abc123", makes one check and
\* returns the provider's ok (True when the provider accepts), or leaves
\* with the provider's exception.
C21_EndToEnd ==
  FirstLoginAccepted =>
    /\ cnt.credPrompts = 2
    /\ cnt.manualFetches = 1
    /\ cnt.cookieFetches = 0
    /\ result.via = "manual"
    /\ Len(saves) = 1
    /\ saves[1].some
    /\ saves[1].d["auth"] = "abc123"
    /\ file = FernetEncrypt(keyring, JsonDumps(saves[1]))
    /\ VerifiedAfterLogin =>
         /\ vf.loads = 1
         /\ vf.active
         /\ vf.hdr = "auth=abc123"
         /\ vf.net = 1
         /\ vf.pc = "returned" => (vf.answered /\ vf.ret = vf.ok)
         /\ vf.pc = "raised" => vf.err = "ApiException"

\* the whole scenario: the login, then the verification the provider accepts
C21_Witness ==
  /\ FirstLoginAccepted
  /\ VerifiedAfterLogin
  /\ vf.pc = "returned"
  /\ vf.hdr = "auth=abc123"
  /\ vf.ok
  /\ vf.ret

\* C22: load() never raises, whether the file exists or not, and leaves
\* _ciphertext equal to the file's bytes, or None when there is no file; a
\* load() that follows a load() of the same vault with the file unchanged
\* leaves the vault, the file and the SecretStore as the first left them.
C22_LoadIdempotent ==
  [][ last'.op = "load" =>
        /\ last'.err = "none"
        /\ ct'[last'.v] = file'
        /\ IsActive(ct'[last'.v]) = last'.existed
        /\ (last.op = "load" /\ last.v = last'.v) =>
             /\ ct' = ct
             /\ src' = src
             /\ file' = file
             /\ keyring' = keyring ]_vars

\* a vault that was active has loaded after the file was removed
C22_Witness ==
  /\ last.op = "load"
  /\ ~last.existed
  /\ last.before
  /\ ct[last.v] = NoBytes
  /\ file = NoBytes

\* the callers whose file write came last
LastWriters ==
  {v \in DirectVaults :
     sv[v].wrote /\ \A u \in DirectVaults : sv[u].seq <= sv[v].seq}

\* C23: when two callers have raced save() on one path and both have
\* returned, the file holds exactly the token of the caller whose file
\* write came last, and a fresh load() followed by get("auth") returns the
\* auth value of that caller's bag.
C23_LastWriteWins ==
  (\A v \in DirectVaults : sv[v].pc = "done") =>
    \A w \in LastWriters :
      /\ file = sv[w].token
      /\ Get(Load(file), keyring, nextKey, "auth").err = "none"
      /\ Get(Load(file), keyring, nextKey, "auth").val = sv[w].bag.d["auth"]

\* C24: in the plain-cookie variant Cookie.load() never raises, and returns
\* None when there is no file and when the file holds something that is no
\* JSON object with an "auth" entry; otherwise the Cookie of that entry.
C24_PlainLoadNeverRaises ==
  cookieOp.op = "load" =>
    /\ cookieOp.err = "none"
    /\ cookieOp.ret =
         IF cookieOp.found.kind = "object" /\ "auth" \in DOMAIN cookieOp.found.m
           THEN CookieOf(cookieOp.found.m["auth"])
           ELSE NoCookie

\* __two_factor_auth has run in this call
ChallengeHandled ==
  e.kind = "Unauthorized" /\ pc # "two_factor"

\* C25: once the challenge handler has run on the rejection reason, a reason
\* that holds "Email 2 Factor Authentication" has led to exactly one email
\* code verification and no generic one; a reason that holds
\* "2 Factor Authentication" but not the email phrase to exactly one generic
\* verification and no email one; any other reason to no verification and
\* no code prompt.  Before the handler runs there is no verification.
C25_ChallengeRouting ==
  IF ~ChallengeHandled
    THEN Verifies = 0 /\ cnt.codePrompts = 0
  ELSE IF Contains(e.reason, <<"Email", "2", "Factor", "Authentication">>)
    THEN cnt.emailVerifies = 1 /\ cnt.totpVerifies = 0 /\ cnt.codePrompts = 1
  ELSE IF Contains(e.reason, <<"2", "Factor", "Authentication">>)
    THEN cnt.totpVerifies = 1 /\ cnt.emailVerifies = 0 /\ cnt.codePrompts = 1
  ELSE Verifies = 0 /\ cnt.codePrompts = 0

\* an email challenge, which also holds the generic phrase, was resolved by
\* the email verification and the call returned
C25_Witness ==
  /\ pc = "returned"
  /\ e.reason = REmail
  /\ Contains(e.reason, TotpPhrase)
  /\ cnt.emailVerifies = 1
  /\ cnt.totpVerifies = 0

\* C26: a call prompts for at most one code and submits at most one
\* verification; when the provider has rejected the code, exactly one
\* prompt and one verification were made, no identity fetch was re-issued,
\* Vault.save was not called, and the call ends by raising that Unauthorized.
C26_NoCodeRetry ==
  /\ cnt.codePrompts <= 1
  /\ Verifies <= 1
  /\ cnt.codeRejected > 0 =>
       /\ cnt.codePrompts = 1
       /\ Verifies = 1
       /\ cnt.manualFetches = 1
       /\ saves = <<>>
       /\ file = atCall.file
       /\ pc \in {"login_raised", "raised"}
       /\ attemptErr.kind = "Unauthorized"
       /\ attemptErr.at \in {"verify2_fa_email_code", "verify2_fa"}
       /\ attemptErr.reason = RBadCode
       /\ pc = "raised" => raisedErr = attemptErr

\* a generic-code challenge whose code the provider rejected: the call raised
C26_Witness ==
  /\ pc = "raised"
  /\ e.reason = RTotp
  /\ cnt.codeRejected = 1
  /\ raisedErr.at = "verify2_fa"
  /\ raisedErr.reason = RBadCode

\* the bag the except block of __manual_login picks
ChosenBag ==
  IF Extract(succHdr).some THEN Extract(succHdr) ELSE Extract(e.headers)

\* C27: when the identity fetch re-issued after the challenge handler has
\* succeeded, Vault.save was called once, with the bag extracted from the
\* success headers when they yield one and otherwise with what the headers
\* of the rejection yield, and the file holds it; when a manual fetch
\* succeeded without any rejection and nothing was extracted, Vault.save was
\* not called and the file is as it was.
C27_PersistedBag ==
  /\ (pc \in {"login_returned", "returned"} /\ result.via = "challenge") =>
       /\ saves = <<ChosenBag>>
       /\ Extract(succHdr).some => saves[1] = Extract(succHdr)
       /\ file = FernetEncrypt(keyring, JsonDumps(ChosenBag))
  /\ (pc \in {"login_returned", "returned"} /\ result.via = "manual"
        /\ ~Extract(succHdr).some) =>
       /\ saves = <<>>
       /\ file = atCall.file

\* a resolved challenge whose success headers carry no cookie: the bag of
\* the rejection headers was saved
C27_Witness ==
  /\ pc = "returned"
  /\ result.via = "challenge"
  /\ Verifies = 1
  /\ ~Extract(succHdr).some
  /\ e.headers = HAuth
  /\ saves = <<Some(Dict2("abc123", PyNone))>>

\* C28: a call makes at most one cookie-path identity fetch, at most two
\* manual-path identity fetches and at most one second-factor verification;
\* after a resolved challenge the fetch is re-issued exactly once, and its
\* rejection leaves the attempt without another verification; and a call
\* that has started ends, by returning or by raising.
C28_AttemptTerminates ==
  /\ [](/\ cnt.cookieFetches <= 1
        /\ cnt.manualFetches <= 2
        /\ Verifies <= 1
        /\ (Finished /\ Verifies = 1 /\ cnt.codeRejected = 0) =>
             cnt.manualFetches = 2
        /\ attemptErr.at = "refetch" =>
             /\ pc \in {"login_raised", "raised"}
             /\ cnt.manualFetches = 2)
  /\ (pc = "load" ~> Finished)

\* the longest attempt: the cookie rejected, the manual fetch rejected with a
\* challenge, the code accepted, the re-issued fetch rejected
C28_Witness ==
  /\ pc = "raised"
  /\ cnt.cookieFetches = 1
  /\ cnt.manualFetches = 2
  /\ Verifies = 1
  /\ raisedErr.at = "refetch"
  /\ raisedErr.kind = "Unauthorized"

\* C29: a call that ended by raising Unauthorized has not called Vault.save,
\* and the vault file holds the bytes it held when the call started.
C29_UnauthorizedLeavesFile ==
  (pc = "raised" /\ raisedErr.kind = "Unauthorized") =>
    /\ saves = <<>>
    /\ file = atCall.file

\* the stored cookie was rejected, then the manual path was rejected too:
\* the rejected cookie's token is still the file
C29_Witness ==
  /\ pc = "raised"
  /\ raisedErr.kind = "Unauthorized"
  /\ cnt.cookieFetches = 1
  /\ cnt.manualFetches > 0
  /\ atCall.file.kind = "token"
  /\ file = atCall.file

\* what a vault built after the call reads from the file
FreshAuth == Get(Load(file), keyring, nextKey, "auth")

\* C30: after a call has returned, the vault file exists and a fresh vault
\* that loads it is active and reads the auth value the provider accepted in
\* the call: the cookie sent on the cookie path, or the auth of the bag
\* extracted on the manual path.
C30_FileHoldsAcceptedBag ==
  pc = "returned" =>
    /\ file # NoBytes
    /\ IsActive(Load(file))
    /\ FreshAuth.err = "none"
    /\ IF result.via = "cookie"
         THEN /\ FreshAuth.val # PyNone
              /\ SetConfiguration(Load(file), keyring, nextKey).header
                   = cookieHeader
         ELSE /\ ChosenBag.some
              /\ FreshAuth.val = ChosenBag.d["auth"]

\* C30 amended: after a call has returned on the cookie path no save was
\* made and the file, unchanged, renders the Cookie header that was
\* accepted; after a manual-path success from which a bag was extracted the
\* file holds that bag and a fresh vault reads its auth value; after a
\* first manual fetch that succeeded without an auth cookie the file is as
\* it was when the call started (missing, or the rejected cookie); after a
\* re-issued fetch that succeeded with no auth cookie in either response
\* the file holds JSON null, which a fresh vault cannot read.
C30_FileAfterSuccess ==
  pc = "returned" =>
    CASE result.via = "cookie" ->
           /\ saves = <<>>
           /\ file = atCall.file
           /\ IsActive(Load(file))
           /\ SetConfiguration(Load(file), keyring, nextKey).err = "none"
           /\ SetConfiguration(Load(file), keyring, nextKey).header = cookieHeader
      [] result.via # "cookie" /\ ChosenBag.some ->
           /\ saves = <<ChosenBag>>
           /\ file = FernetEncrypt(keyring, JsonDumps(ChosenBag))
           /\ IsActive(Load(file))
           /\ FreshAuth.err = "none"
           /\ FreshAuth.val = ChosenBag.d["auth"]
      [] result.via = "manual" /\ ~ChosenBag.some ->
           /\ saves = <<>>
           /\ file = atCall.file
      [] OTHER ->
           /\ result.via = "challenge"
           /\ saves = <<NoBag>>
           /\ file = FernetEncrypt(keyring, JsonDumps(NoBag))
           /\ FreshAuth.err = "AttributeError"

\* the stored cookie was rejected and the manual fetch succeeded without an
\* auth cookie: the call returned and the rejected cookie is still the file
C30_Witness ==
  /\ pc = "returned"
  /\ result.via = "manual"
  /\ cnt.cookieFetches = 1
  /\ ~Extract(succHdr).some
  /\ saves = <<>>
  /\ atCall.file.kind = "token"
  /\ file = atCall.file

\* C31: a verify_auth_token() call on its default vault that has made its
\* validity check after the last login() call sent the Cookie header of the
\* bag the vault file holds, also when an earlier verify_auth_token() in the
\* process read another bag and a login() has persisted a new one since.
C31_DefaultVaultChecksDisk ==
  (vf.vault = "dv" /\ vf.logins = nLogins /\ vf.net = 1) =>
    vf.hdr = SetConfiguration(Load(file), keyring, nextKey).header

\* C32: _ciphertext, and with it is_active, changes during save() only in
\* the step in which the file write succeeded, and then to the token written:
\* a save() that failed at the SecretStore, at mkdir or at the file write has
\* left both as they were.  After a successful save by a single caller
\* _ciphertext equals the bytes of the file.
C32_CiphertextAfterWrite ==
  /\ [][\A v \in DirectVaults :
         /\ (sv[v].pc # "idle" /\ ct'[v] # ct[v]) =>
              /\ sv[v].pc = "write"
              /\ sv'[v].pc = "chmod"
              /\ sv'[v].wrote
              /\ ct'[v] = sv[v].token
         /\ sv'[v].pc = "failed" =>
              /\ ct'[v] = ct[v]
              /\ IsActive(ct'[v]) = IsActive(ct[v])]_vars
  /\ [](\A v \in DirectVaults :
         (/\ sv[v].pc \in {"chmod", "done"}
          /\ \A u \in DirectVaults \ {v} : sv[u].pc = "idle") =>
           /\ ct[v] = sv[v].token
           /\ ct[v] = file
           /\ IsActive(ct[v]))

\* a single caller whose vault had loaded a token failed at the file write:
\* the file is no longer that token, the vault still holds it and is active
C32_Witness ==
  /\ sv["v1"].pc = "failed"
  /\ sv["v1"].inj = "write"
  /\ src["v1"] = "load"
  /\ ct["v1"].kind = "token"
  /\ IsActive(ct["v1"])
  /\ file # ct["v1"]
  /\ sv["v2"].pc = "idle"

\* the twoFactorAuth value of the jar merged from every cookie string of the
\* entry
TwoFactorCookie(h) ==
  LET all == IF UpperTruthy(h)
               THEN (IF h.isList THEN Flatten(h.items) ELSE h.sc)
               ELSE IF h.hasLower THEN h.lower ELSE <<>>
      jar == Jar(all)
  IN IF "twoFactorAuth" \in DOMAIN jar THEN jar["twoFactorAuth"] ELSE PyNone

\* the Set-Cookie of the response carries auth=a, a not empty, and no
\* twoFactorAuth
AuthOnly(h) ==
  /\ ~h.none
  /\ IsStr(AuthCookie(h))
  /\ AuthCookie(h) # ""
  /\ TwoFactorCookie(h) = PyNone

\* C33: when extract() has been called on a response whose Set-Cookie carries
\* auth=a and no twoFactorAuth, it has returned a bag, and save() of that bag,
\* load() by a new vault and set_configuration() give exactly the header
\* "auth=a", and get("twoFactorAuth") on that vault returns None.
C33_AbsentSecondFactor ==
  (last.op = "extract" /\ AuthOnly(last.hdr)) =>
    LET s   == Save(keyring, nextKey, last.arg)
        c   == Load(s.token)
        cfg == SetConfiguration(c, s.keyring, s.nextKey)
        g   == Get(c, s.keyring, s.nextKey, "twoFactorAuth")
    IN /\ last.err = "none"
       /\ last.arg.some
       /\ cfg.err = "none"
       /\ cfg.header = "auth=" \o AuthCookie(last.hdr)
       /\ g.err = "none"
       /\ g.val = PyNone

====
